---- MODULE Spec2Model ----
(***************************************************************************)
(* Model of models/pattern.py: the per-Pattern time-bucket counters        *)
(* (Pattern.counter), and the PatternManager that mirrors every pattern    *)
(* definition into an in-memory index, a prefix trie and a remote store.   *)
(***************************************************************************)
EXTENDS Integers, Sequences, FiniteSets, TLC

VARIABLES
    success_counter,  \* Pattern.success_counter: per Pattern, OrderedDict as a sequence of <<label, count>>
    fail_counter,     \* Pattern.fail_counter
    counter_lock,     \* asyncio.Lock objects: the task holding each one, or NoTask
    cpc,              \* per counter task: the line of Pattern.counter it is at
    frame,            \* per counter task: the locals of its counter() call
    ins_log,          \* history: per Pattern and map, the held labels in the order they were inserted
    completed,        \* history: per Pattern, map and label callers use, the counter() calls that have finished
    evicted,          \* history: the <<pattern, valid, label>> that have been popped
    overlapped,       \* history: the <<pattern, valid, label>> that two calls in flight have shared
    failed_since,     \* history: the <<pattern, label>> with a failure recorded since the label entered the success map
    calls,            \* history: number of counter() calls issued
    redis,            \* PatternManager.redis: "unset", or the pool's state "open" / "closed"
    store,            \* the remote hash 'response_check_pattern': field -> JSON document
    trie,             \* PatternManager.t: the CheckPatternTrie, key -> JSON document
    _patterns,        \* PatternManager._patterns: pattern string -> Pattern
    mgr,              \* where the manager is in __aenter__ / the managed scope / __aexit__
    op,               \* per task: its latest add / update / delete call and how it ended
    pending,          \* store commands sent on the connection and not yet answered, oldest first
    faulted,          \* history: some add / update / delete call has raised
    last,             \* history: the task that issued the latest add / update / delete call
    mcalls,           \* history: number of add / update / delete calls issued
    recorded,         \* history: outcomes recorded on Patterns of the index since the latest such call
    lookup,           \* a closest_pattern(url) call on the trie: its argument and what it returned
    checked,          \* a Checker.check call: the checker, its arguments and what it returned
    rate              \* a Pattern.success_rate read: the Pattern and the [x, y] it returned

cvars == <<success_counter, fail_counter, counter_lock, cpc, frame,
           ins_log, completed, evicted, overlapped, failed_since, calls>>

mvars == <<redis, store, trie, _patterns, mgr, op, pending, faulted, last, mcalls,
           recorded>>

pvars == <<lookup, checked, rate>>

vars == <<cvars, mvars, pvars>>

-----------------------------------------------------------------------------
(* Bounds *)
NumPatterns == 2
NumTasks == 2
MaxLabel == 11
MaxCalls == 2
MaxOps == 2

(* Program constant: the history length in Pattern.counter *)
Capacity == 10

PatternIds == 1..NumPatterns
Tasks == 1..NumTasks
NoTask == 0

-----------------------------------------------------------------------------
(* OrderedDict, as a sequence of <<key, value>> pairs in insertion order *)

Labels(c) == {c[i][1] : i \in 1..Len(c)}

IndexOf(c, k) == CHOOSE i \in 1..Len(c) : c[i][1] = k

GetItem(c, k) == c[IndexOf(c, k)][2]

\* d[k] = v: an existing key keeps its position, a new key goes last
SetItem(c, k, v) ==
    IF k \in Labels(c)
    THEN [c EXCEPT ![IndexOf(c, k)] = <<k, v>>]
    ELSE Append(c, <<k, v>>)

PopLast(c) == SubSeq(c, 1, Len(c) - 1)

\* c.popitem(last=False)
PopItem(c) == Tail(c)

KeySeq(c) == [i \in 1..Len(c) |-> c[i][1]]

-----------------------------------------------------------------------------
(* Strings are sequences of words; no word is a prefix of another, so the   *)
(* prefix order on word sequences is the prefix order on the strings.      *)

\* the words that begin with the characters 'http'
HttpWords == {"http://", "https://", "httpbin"}

\* the words that the regular expression https?:// matches
Protocols == {"http://", "https://"}

None == "None"

EmptyDict == << >>

\* d[k] = v on a dict
DictSet(d, k, v) == [x \in (DOMAIN d) \cup {k} |-> IF x = k THEN v ELSE d[x]]

\* del d[k] on a dict that has k
DictDel(d, k) == [x \in (DOMAIN d) \ {k} |-> d[x]]

NoDoc == [pattern |-> << >>, rule |-> None, value |-> None]

NoOp == [name |-> "none", key |-> << >>, rule |-> None, value |-> None,
         status |-> "none", exc |-> ""]

\* no closest_pattern, Checker.check or success_rate call has been made
NoCalls ==
    /\ lookup = [called |-> FALSE]
    /\ checked = [called |-> FALSE]
    /\ rate = [called |-> FALSE]

\* PatternManager.__init__: no connection, no trie, an empty index
ManagerNew ==
    /\ redis = "unset"
    /\ trie = EmptyDict
    /\ _patterns = EmptyDict
    /\ mgr = "new"
    /\ op = [t \in Tasks |-> NoOp]
    /\ pending = << >>
    /\ faulted = FALSE
    /\ last = NoTask
    /\ mcalls = 0
    /\ recorded = 0

-----------------------------------------------------------------------------
(* Pattern.counter *)

\* c = self.success_counter if valid else self.fail_counter
CounterOf(p, valid) == IF valid THEN success_counter[p] ELSE fail_counter[p]

SharedLock(p) == 1

\* self.counter_lock = asyncio.Lock(): one lock object per Pattern
LockOf(p) == p

NeverLocked(p) == TRUE

\* async with self.counter_lock: entry waits until the lock is free
CanAcquire(p) == counter_lock[LockOf(p)] = NoTask

DelNumOffByOne(c) == Len(c) - Capacity - 1

\* del_num = len(c) - 10
DelNum(c) == Len(c) - Capacity

NoFrame == [self |-> 0, now |-> 0, valid |-> FALSE, val |-> 0]

\* The labels a caller passes: the first-inserted label of a full history,
\* and labels newer than every label of a full history.
FirstLabel == 2
CallLabels == {FirstLabel} \cup (Capacity + 1 .. MaxLabel)

\* A history of Capacity minute labels, the first two inserted out of
\* chronological order, each seen once.
FullHistory == [i \in 1..Capacity |->
                  <<IF i = 1 THEN 2 ELSE IF i = 2 THEN 1 ELSE i, 1>>]

InitHistories == {<< >>, FullHistory}

AllLabels == 1..MaxLabel

InitCompleted(c) == [l \in CallLabels |-> IF l \in Labels(c) THEN GetItem(c, l) ELSE 0]

InitCounter ==
    /\ \E h \in InitHistories :
          /\ success_counter = [p \in PatternIds |-> h]
          /\ fail_counter = [p \in PatternIds |-> h]
    /\ counter_lock = [p \in PatternIds |-> NoTask]
    /\ cpc = [t \in Tasks |-> "idle"]
    /\ frame = [t \in Tasks |-> NoFrame]
    /\ ins_log = [p \in PatternIds |-> [v \in BOOLEAN |->
                     KeySeq(IF v THEN success_counter[p] ELSE fail_counter[p])]]
    /\ completed = [p \in PatternIds |-> [v \in BOOLEAN |->
                     InitCompleted(IF v THEN success_counter[p] ELSE fail_counter[p])]]
    /\ evicted = {}
    /\ overlapped = {}
    /\ failed_since = {}
    /\ calls = 0
    /\ ManagerNew
    /\ store = EmptyDict
    /\ NoCalls

SetCounter(p, valid, c) ==
    /\ success_counter' = IF valid THEN [success_counter EXCEPT ![p] = c] ELSE success_counter
    /\ fail_counter' = IF valid THEN fail_counter ELSE [fail_counter EXCEPT ![p] = c]

\* A task calls pattern.counter(now, valid)
Call(t, p, now, valid) ==
    /\ UNCHANGED <<mvars, pvars>>
    /\ cpc[t] = "idle"
    /\ calls < MaxCalls
    /\ calls' = calls + 1
    /\ cpc' = [cpc EXCEPT ![t] = "acquire"]
    /\ frame' = [frame EXCEPT ![t] = [NoFrame EXCEPT !.self = p, !.now = now, !.valid = valid]]
    /\ overlapped' = IF \E u \in Tasks : /\ cpc[u] # "idle"
                                          /\ frame[u].self = p
                                          /\ frame[u].now = now
                                          /\ frame[u].valid = valid
                     THEN overlapped \cup {<<p, valid, now>>}
                     ELSE overlapped
    /\ UNCHANGED <<success_counter, fail_counter, counter_lock, ins_log, completed, evicted,
                   failed_since>>

\* line 85: async with self.counter_lock, and (no await in between) lines
\* 86-88: the choice of c, the test now in c and the read half of c[now] += 1
Acquire(t) ==
    /\ UNCHANGED <<mvars, pvars>>
    /\ cpc[t] = "acquire"
    /\ CanAcquire(frame[t].self)
    /\ counter_lock' = [counter_lock EXCEPT ![LockOf(frame[t].self)] = t]
    /\ LET c == CounterOf(frame[t].self, frame[t].valid) IN
       IF frame[t].now \in Labels(c)
       THEN /\ frame' = [frame EXCEPT ![t].val = GetItem(c, frame[t].now)]
            /\ cpc' = [cpc EXCEPT ![t] = "incr"]
       ELSE /\ frame' = frame
            /\ cpc' = [cpc EXCEPT ![t] = "insert"]
    /\ UNCHANGED <<success_counter, fail_counter, ins_log, completed, evicted, overlapped,
                   failed_since, calls>>

RECURSIVE PopItems(_, _)
\* for _ in range(del_num): c.popitem(last=False)
\* (popitem on an empty dict raises KeyError, which ends the loop)
PopItems(c, n) == IF n <= 0 \/ c = << >> THEN c ELSE PopItems(PopItem(c), n - 1)

\* lines 91-94: del_num = len(c) - 10; if del_num > 0: the pops
Evict(c) == PopItems(c, DelNum(c))

\* c[now] = v, then lines 91-94, then the with block ends, which releases
\* the lock; the call returns
StoreNow(t, v) ==
    LET p == frame[t].self
        valid == frame[t].valid
        c == CounterOf(p, valid)
        c1 == SetItem(c, frame[t].now, v)
        c2 == Evict(c1)
        gone == Labels(c1) \ Labels(c2)
        log1 == IF frame[t].now \in Labels(c) THEN ins_log[p][valid]
                ELSE Append(ins_log[p][valid], frame[t].now)
    IN /\ SetCounter(p, valid, c2)
       /\ ins_log' = [ins_log EXCEPT ![p][valid] = SelectSeq(log1, LAMBDA x : x \in Labels(c2))]
       /\ evicted' = evicted \cup {<<p, valid, l>> : l \in gone}
       /\ failed_since' =
            IF valid THEN failed_since \ {<<p, l>> : l \in gone}
            ELSE IF frame[t].now \in Labels(success_counter[p])
                 THEN failed_since \cup {<<p, frame[t].now>>}
                 ELSE failed_since
       /\ completed' = [completed EXCEPT ![p][valid][frame[t].now] = @ + 1]
       /\ counter_lock' = [counter_lock EXCEPT ![LockOf(p)] = NoTask]
       /\ cpc' = [cpc EXCEPT ![t] = "idle"]
       /\ frame' = [frame EXCEPT ![t] = NoFrame]
       /\ UNCHANGED <<overlapped, calls>>

\* line 88: the write half of c[now] += 1; then lines 91-94
Incr(t) ==
    /\ UNCHANGED <<mvars, pvars>>
    /\ cpc[t] = "incr"
    /\ StoreNow(t, frame[t].val + 1)

\* line 90: c[now] = 1; then lines 91-94
Insert(t) ==
    /\ UNCHANGED <<mvars, pvars>>
    /\ cpc[t] = "insert"
    /\ StoreNow(t, 1)

NextCounter ==
    \/ \E t \in Tasks, p \in PatternIds, now \in CallLabels, valid \in BOOLEAN :
          Call(t, p, now, valid)
    \/ \E t \in Tasks : Acquire(t)
    \/ \E t \in Tasks : Incr(t)
    \/ \E t \in Tasks : Insert(t)

SpecCounter == InitCounter /\ [][NextCounter]_vars

-----------------------------------------------------------------------------
(* Properties of Pattern.counter *)

\* the task is inside the with block of counter()
InSection(t) == cpc[t] \in {"incr", "insert"}

InFlight(t) == cpc[t] # "idle"

Quiet(p) == \A t \in Tasks : InSection(t) => frame[t].self # p

\* C1: whenever no counter() call is inside its increment-and-evict section
\* on a Pattern, the Pattern's success counter and its failure counter each
\* hold at most 10 distinct time labels.
C1_CounterBounded ==
    \A p \in PatternIds :
        Quiet(p) => /\ Cardinality(Labels(success_counter[p])) <= Capacity
                    /\ Cardinality(Labels(fail_counter[p])) <= Capacity

\* a counter() call has evicted a label and has returned; the map is full
C1_Witness ==
    \E p \in PatternIds, v \in BOOLEAN :
        /\ Quiet(p)
        /\ \E l \in AllLabels : <<p, v, l>> \in evicted
        /\ Cardinality(Labels(CounterOf(p, v))) = Capacity

\* C2: eviction is FIFO by insertion.  A map keeps its labels in the order
\* in which they were inserted; a call that inserts a new label into a map
\* holding 10 labels removes exactly the earliest-inserted label held, so the
\* 10 most recently inserted remain; a call that increments a held label
\* neither removes a label nor changes the order, hence not the label that is
\* evicted next.
C2_EvictionFIFO ==
    /\ [](\A p \in PatternIds, v \in BOOLEAN : KeySeq(CounterOf(p, v)) = ins_log[p][v])
    /\ [][\A t \in Tasks, p \in PatternIds, v \in BOOLEAN, l \in CallLabels :
            (frame[t].self = p /\ frame[t].valid = v /\ frame[t].now = l) =>
               /\ (cpc[t] = "insert" /\ cpc'[t] = "idle" /\ l \notin Labels(CounterOf(p, v)))
                    => Labels(CounterOf(p, v))' =
                         IF Len(ins_log[p][v]) >= Capacity
                         THEN (Labels(CounterOf(p, v)) \ {Head(ins_log[p][v])}) \cup {l}
                         ELSE Labels(CounterOf(p, v)) \cup {l}
               /\ (cpc[t] = "incr" /\ cpc'[t] = "idle" /\ l \in Labels(CounterOf(p, v)))
                    => KeySeq(CounterOf(p, v))' = KeySeq(CounterOf(p, v))
         ]_vars

\* the first-inserted label was incremented while held, was then evicted by
\* the insertion of an 11th label, and the label inserted second (which is
\* the chronologically oldest) is still held
C2_Witness ==
    \E p \in PatternIds, v \in BOOLEAN :
        /\ Quiet(p)
        /\ <<p, v, FirstLabel>> \in evicted
        /\ completed[p][v][FirstLabel] >= 2
        /\ 1 \in Labels(CounterOf(p, v))
        /\ FirstLabel \notin Labels(CounterOf(p, v))
        /\ Len(CounterOf(p, v)) = Capacity

CountOf(c, l) == IF l \in Labels(c) THEN GetItem(c, l) ELSE 0

\* C3: no lost update.  For every Pattern, map and label that has not been
\* evicted, once every counter() call for it has completed, the stored count
\* equals the number of completed calls (the count before the calls plus one
\* per call).
C3_NoLostUpdate ==
    LET busy == {<<frame[t].self, frame[t].valid, frame[t].now>> :
                    t \in {u \in Tasks : InFlight(u)}}
        skip == busy \cup evicted
    IN \A p \in PatternIds, v \in BOOLEAN :
          LET c == CounterOf(p, v) IN
          /\ \A i \in 1..Len(c) :
                (c[i][1] \in CallLabels /\ <<p, v, c[i][1]>> \notin skip)
                   => c[i][2] = completed[p][v][c[i][1]]
          /\ \A l \in CallLabels :
                (<<p, v, l>> \notin skip /\ completed[p][v][l] > 0) => l \in Labels(c)

\* two calls for the same label were in flight together and both completed
C3_Witness ==
    \E p \in PatternIds, v \in BOOLEAN, l \in CallLabels :
        /\ <<p, v, l>> \in overlapped
        /\ <<p, v, l>> \notin evicted
        /\ \A t \in Tasks : ~InFlight(t)
        /\ completed[p][v][l] >= 2
        /\ CountOf(CounterOf(p, v), l) = completed[p][v][l]

\* C4: at most one task is inside the increment-and-evict section of a
\* Pattern, and a task waiting to enter the section of a Pattern can enter
\* whenever no task is inside the section of that same Pattern, whatever
\* tasks hold or wait for the locks of other Patterns.
C4_PerPatternExclusion ==
    /\ \A p \in PatternIds :
          Cardinality({t \in Tasks : InSection(t) /\ frame[t].self = p}) <= 1
    /\ \A t \in Tasks :
          (cpc[t] = "acquire" /\ Quiet(frame[t].self)) => ENABLED Acquire(t)

\* one task is inside the section of a Pattern while another task, which
\* arrived later, waits for (or is inside) the section of a different Pattern
C4_Witness ==
    \E t, u \in Tasks :
        /\ InSection(t)
        /\ cpc[u] = "acquire"
        /\ frame[u].self # frame[t].self

-----------------------------------------------------------------------------
(* CheckPatternTrie and PatternManager *)

PublicProxies == <<"public_proxies">>

\* the pattern strings callers use
Keys == {<<"a">>, <<"http://", "a">>, PublicProxies}

\* the (rule, value) pairs callers use
RuleValues == {<<None, None>>, <<"whitelist", "OK">>}

\* url.startswith('http')
StartsWithHttp(url) == Len(url) > 0 /\ url[1] \in HttpWords

\* re.sub(r'https?://', '', url, 1): the first match is removed, wherever it is
SubProtocolOnce(url) ==
    LET hits == {i \in 1..Len(url) : url[i] \in Protocols} IN
    IF hits = {} THEN url
    ELSE LET i == CHOOSE j \in hits : \A h \in hits : j <= h
         IN SubSeq(url, 1, i - 1) \o SubSeq(url, i + 1, Len(url))

\* CheckPatternTrie._remove_http_prefix
RemoveHttpPrefix(url) == IF StartsWithHttp(url) THEN SubProtocolOnce(url) ELSE url

\* Pattern.__init__: a Pattern of the index, its two counters empty
Pattern(pattern_str, rule, value) ==
    [pattern_str |-> pattern_str, rule |-> rule, value |-> value,
     success_counter |-> << >>, fail_counter |-> << >>]

\* Pattern.dumps: json.dumps(self.to_dict())
Dumps(p) == [pattern |-> p.pattern_str, rule |-> p.rule, value |-> p.value]

LoadPatternBare(doc) == Pattern(doc.pattern, None, None)

\* PatternManager.patterns: json.loads(v), then Pattern(pattern['pattern'], ...)
LoadPattern(doc) == Pattern(doc.pattern, doc.rule, doc.value)

TrieSetItemRaw(tr, key, value) == DictSet(tr, key, value)

\* CheckPatternTrie.__setitem__: the key is normalized
TrieSetItem(tr, key, value) == DictSet(tr, RemoveHttpPrefix(key), value)

\* del self.t[key]: CharTrie.__delitem__ is inherited, the key is used as given
\* and a key that holds no value raises KeyError
TrieDelRaises(tr, key) == key \notin DOMAIN tr

NeverRaises(d, key) == FALSE

\* del self._patterns[key] raises KeyError for a missing key
IndexDelRaises(d, key) == key \notin DOMAIN d

NormSet(ks) == {RemoveHttpPrefix(k) : k \in ks}

\* CheckPatternTrie(d): every item of d is stored through __setitem__, in the
\* iteration order of d; of the fields that normalize to one key, the last
\* one iterated stays
InitTrieResults(d) ==
    {tr \in [NormSet(DOMAIN d) -> {d[k] : k \in DOMAIN d}] :
        \A n \in DOMAIN tr : \E k \in DOMAIN d : RemoveHttpPrefix(k) = n /\ tr[n] = d[k]}

\* {str(pattern): pattern for pattern in await self.patterns()}
LoadIndex(d) ==
    LET docs == {d[k] : k \in DOMAIN d} IN
    [k \in {doc.pattern : doc \in docs} |->
        LoadPattern(CHOOSE doc \in docs : doc.pattern = k)]

\* the definitions an earlier run of the manager has left in the store: any
\* subset of 'a' without a rule, 'http://a' with a whitelist rule, and the
\* sentinel as startup writes it or as a later update has changed it
StoredRuleValues(k) ==
    IF k = <<"a">> THEN {<<None, None>>}
    ELSE IF k = PublicProxies THEN RuleValues
    ELSE {<<"whitelist", "OK">>}

InitStores ==
    UNION {{rv \in [ks -> RuleValues] : \A k \in ks : rv[k] \in StoredRuleValues(k)} :
             ks \in SUBSET Keys}

StoredDocs(rv) == [k \in DOMAIN rv |-> Dumps(Pattern(k, rv[k][1], rv[k][2]))]

CountersNew ==
    /\ success_counter = [p \in PatternIds |-> << >>]
    /\ fail_counter = [p \in PatternIds |-> << >>]
    /\ counter_lock = [p \in PatternIds |-> NoTask]
    /\ cpc = [t \in Tasks |-> "idle"]
    /\ frame = [t \in Tasks |-> NoFrame]
    /\ ins_log = [p \in PatternIds |-> [v \in BOOLEAN |-> << >>]]
    /\ completed = [p \in PatternIds |-> [v \in BOOLEAN |-> [l \in CallLabels |-> 0]]]
    /\ evicted = {}
    /\ overlapped = {}
    /\ failed_since = {}
    /\ calls = 0

InitManager ==
    /\ ManagerNew
    /\ \E rv \in InitStores : store = StoredDocs(rv)
    /\ CountersNew
    /\ NoCalls

\* line 123: self.redis = await aioredis.create_redis_pool(...)
CreatePool ==
    /\ mgr = "new"
    /\ \/ redis' = "open" /\ mgr' = "init_trie"
       \/ redis' = redis /\ mgr' = "enter_failed"
    /\ UNCHANGED <<store, trie, _patterns, op, pending, faulted, last, mcalls, recorded>>
    /\ UNCHANGED <<cvars, pvars>>

\* line 124: self.t = await self._init_trie()
InitTrie ==
    /\ mgr = "init_trie"
    /\ \/ \E tr \in InitTrieResults(store) : trie' = tr /\ mgr' = "patterns"
       \/ trie' = trie /\ mgr' = "enter_failed"
    /\ UNCHANGED <<redis, store, _patterns, op, pending, faulted, last, mcalls, recorded>>
    /\ UNCHANGED <<cvars, pvars>>

\* line 125: self._patterns = {str(pattern): pattern for pattern in await self.patterns()}
LoadPatterns ==
    /\ mgr = "patterns"
    /\ \/ _patterns' = LoadIndex(store) /\ mgr' = "add_sentinel"
       \/ _patterns' = _patterns /\ mgr' = "enter_failed"
    /\ UNCHANGED <<redis, store, trie, op, pending, faulted, last, mcalls, recorded>>
    /\ UNCHANGED <<cvars, pvars>>

AddSyncInPlace(caller, pattern, rule, value) ==
    LET p == IF pattern \in DOMAIN _patterns
             THEN [_patterns[pattern] EXCEPT !.rule = rule, !.value = value]
             ELSE Pattern(pattern, rule, value)
    IN /\ _patterns' = DictSet(_patterns, pattern, p)
       /\ trie' = TrieSetItem(trie, pattern, Dumps(p))
       /\ pending' = Append(pending, [task |-> caller, cmd |-> "hset",
                                      field |-> pattern, doc |-> Dumps(p)])

\* PatternManager.add up to its await: lines 176-179
AddSync(caller, pattern, rule, value) ==
    LET p == Pattern(pattern, rule, value) IN
    /\ _patterns' = DictSet(_patterns, pattern, p)
    /\ trie' = TrieSetItem(trie, pattern, Dumps(p))
    /\ pending' = Append(pending, [task |-> caller, cmd |-> "hset",
                                   field |-> pattern, doc |-> Dumps(p)])

\* line 126: await self.add('public_proxies', None, None), up to the await
AddSentinel ==
    /\ mgr = "add_sentinel"
    /\ AddSync(NoTask, PublicProxies, None, None)
    /\ mgr' = "sentinel_hset"
    /\ UNCHANGED <<redis, store, op, faulted, last, mcalls, recorded>>
    /\ UNCHANGED <<cvars, pvars>>

\* pattern.counter(now, valid) from its first line to its last, on one map
CounterDone(c, now) ==
    Evict(SetItem(c, now, IF now \in Labels(c) THEN GetItem(c, now) + 1 ELSE 1))

\* a validation records its outcome on the Pattern the index holds:
\* pattern = get_pattern(pattern_str), then await pattern.counter(now, valid)
RecordOutcome(pattern_str, now, valid) ==
    /\ mgr = "running"
    /\ pattern_str \in DOMAIN _patterns
    /\ calls < MaxCalls
    /\ calls' = calls + 1
    /\ recorded' = recorded + 1
    /\ _patterns' = [_patterns EXCEPT ![pattern_str] =
           IF valid
           THEN [@ EXCEPT !.success_counter = CounterDone(@, now)]
           ELSE [@ EXCEPT !.fail_counter = CounterDone(@, now)]]
    /\ UNCHANGED <<redis, store, trie, mgr, op, pending, faulted, last, mcalls>>
    /\ UNCHANGED <<success_counter, fail_counter, counter_lock, cpc, frame,
                   ins_log, completed, evicted, overlapped, failed_since>>
    /\ UNCHANGED pvars

NewOp(name, pattern, rule, value, status, exc) ==
    [name |-> name, key |-> pattern, rule |-> rule, value |-> value,
     status |-> status, exc |-> exc]

CanCall(t) ==
    /\ mgr = "running"
    /\ op[t].status # "awaiting"
    /\ mcalls < MaxOps

\* PatternManager.add, called by a task, up to its await
Add(t, pattern, rule, value) ==
    /\ CanCall(t)
    /\ AddSync(t, pattern, rule, value)
    /\ op' = [op EXCEPT ![t] = NewOp("add", pattern, rule, value, "awaiting", "")]
    /\ mcalls' = mcalls + 1
    /\ recorded' = 0
    /\ last' = t
    /\ UNCHANGED <<redis, store, mgr, faulted>>
    /\ UNCHANGED <<cvars, pvars>>

\* PatternManager.update: await self.add(pattern, rule, value)
Update(t, pattern, rule, value) ==
    /\ CanCall(t)
    /\ AddSync(t, pattern, rule, value)
    /\ op' = [op EXCEPT ![t] = NewOp("update", pattern, rule, value, "awaiting", "")]
    /\ mcalls' = mcalls + 1
    /\ recorded' = 0
    /\ last' = t
    /\ UNCHANGED <<redis, store, mgr, faulted>>
    /\ UNCHANGED <<cvars, pvars>>

\* PatternManager.delete, up to its await or to the KeyError: lines 182-184
Delete(t, pattern) ==
    /\ CanCall(t)
    /\ mcalls' = mcalls + 1
    /\ recorded' = 0
    /\ last' = t
    /\ IF TrieDelRaises(trie, pattern)
       THEN /\ op' = [op EXCEPT ![t] =
                        NewOp("delete", pattern, None, None, "raised", "KeyError:trie")]
            /\ faulted' = TRUE
            /\ UNCHANGED <<trie, _patterns, pending>>
       ELSE /\ trie' = DictDel(trie, pattern)
            /\ IF IndexDelRaises(_patterns, pattern)
               THEN /\ op' = [op EXCEPT ![t] =
                         NewOp("delete", pattern, None, None, "raised", "KeyError:index")]
                    /\ faulted' = TRUE
                    /\ UNCHANGED <<_patterns, pending>>
               ELSE /\ _patterns' = DictDel(_patterns, pattern)
                    /\ pending' = Append(pending, [task |-> t, cmd |-> "hdel",
                                                   field |-> pattern, doc |-> NoDoc])
                    /\ op' = [op EXCEPT ![t] =
                                NewOp("delete", pattern, None, None, "awaiting", "")]
                    /\ faulted' = faulted
    /\ UNCHANGED <<redis, store, mgr>>
    /\ UNCHANGED <<cvars, pvars>>

\* the store executes a command: HSET field doc / HDEL field
Execute(h, c) ==
    IF c.cmd = "hset" THEN DictSet(h, c.field, c.doc) ELSE DictDel(h, c.field)

\* the oldest command sent is executed and answered; its awaiting call returns
Reply ==
    /\ pending # << >>
    /\ LET c == Head(pending) IN
       /\ store' = Execute(store, c)
       /\ pending' = Tail(pending)
       /\ IF c.task = NoTask
          THEN mgr' = "running" /\ op' = op
          ELSE mgr' = mgr /\ op' = [op EXCEPT ![c.task].status = "returned"]
    /\ UNCHANGED <<redis, trie, _patterns, faulted, last, mcalls, recorded>>
    /\ UNCHANGED <<cvars, pvars>>

\* the oldest command sent fails (connection lost); the error reaches the caller
ReplyError ==
    /\ pending # << >>
    /\ LET c == Head(pending) IN
       /\ pending' = Tail(pending)
       /\ IF c.task = NoTask
          THEN mgr' = "enter_failed" /\ op' = op /\ faulted' = faulted
          ELSE /\ mgr' = mgr
               /\ op' = [op EXCEPT ![c.task].status = "raised",
                                   ![c.task].exc = "ConnectionError"]
               /\ faulted' = TRUE
    /\ UNCHANGED <<redis, store, trie, _patterns, last, mcalls, recorded>>
    /\ UNCHANGED <<cvars, pvars>>

\* __aexit__, which runs when the body of the async with block ends, normally
\* or by an exception (its arguments are not looked at):
\* if self.redis is not None: self.redis.close(); await self.redis.wait_closed()
AExit ==
    /\ mgr = "running"
    /\ pending = << >>
    /\ redis' = IF redis # "unset" THEN "closed" ELSE redis
    /\ mgr' = "exited"
    /\ UNCHANGED <<store, trie, _patterns, op, pending, faulted, last, mcalls, recorded>>
    /\ UNCHANGED <<cvars, pvars>>

NextManager ==
    \/ CreatePool
    \/ InitTrie
    \/ LoadPatterns
    \/ AddSentinel
    \/ \E t \in Tasks, k \in Keys, rv \in RuleValues : Add(t, k, rv[1], rv[2])
    \/ \E t \in Tasks, k \in Keys, rv \in RuleValues : Update(t, k, rv[1], rv[2])
    \/ \E t \in Tasks, k \in Keys : Delete(t, k)
    \/ Reply
    \/ ReplyError
    \/ AExit

SpecManager == InitManager /\ [][NextManager]_vars

\* Bound: the update calls made while validations record outcomes
MaxUpdates == 1

\* the pattern strings that are updated: the sentinel that startup registers,
\* and one that the first update registers
UpdateKeys == {PublicProxies, <<"http://", "a">>}

\* a new manager on an empty store
InitUpdate ==
    /\ ManagerNew
    /\ store = EmptyDict
    /\ CountersNew
    /\ NoCalls

\* the manager with validations recording outcomes while patterns are updated
NextUpdate ==
    \/ CreatePool
    \/ InitTrie
    \/ LoadPatterns
    \/ AddSentinel
    \/ \E t \in Tasks, k \in UpdateKeys, rv \in RuleValues :
          mcalls < MaxUpdates /\ Update(t, k, rv[1], rv[2])
    \/ \E k \in UpdateKeys, valid \in BOOLEAN : RecordOutcome(k, FirstLabel, valid)
    \/ Reply
    \/ ReplyError

SpecUpdate == InitUpdate /\ [][NextUpdate]_vars

-----------------------------------------------------------------------------
(* Properties of PatternManager *)

Awaiting(t) == op[t].status = "awaiting"

\* task t calls name(k, ...) in this step
Calls(t, name, k) ==
    /\ mcalls' = mcalls + 1
    /\ last' = t
    /\ op'[t].name = name
    /\ op'[t].key = k

\* the index, the trie and the store all hold the definition (k, rule, value)
Registered(idx, tr, h, k, rule, value) ==
    LET p == Pattern(k, rule, value) IN
    /\ k \in DOMAIN idx /\ idx[k] = p
    /\ RemoveHttpPrefix(k) \in DOMAIN tr /\ tr[RemoveHttpPrefix(k)] = Dumps(p)
    /\ k \in DOMAIN h /\ h[k] = Dumps(p)

\* C5: when add(patternStr, rule, value) returns, no other add, update or
\* delete being in progress and none having been called since this add was
\* called, the index maps patternStr to a Pattern with that rule and value,
\* the trie holds its serialized form under the normalized pattern string
\* and the store holds it under patternStr.  The same holds for the add of
\* the sentinel that ends startup.
C5_AddRegisters ==
    [][ /\ \A t \in Tasks :
             ( /\ op[t].name = "add"
               /\ Awaiting(t)
               /\ op'[t].status = "returned"
               /\ last = t
               /\ \A u \in Tasks : op'[u].status # "awaiting" )
             => Registered(_patterns', trie', store', op[t].key, op[t].rule, op[t].value)
        /\ (mgr = "sentinel_hset" /\ mgr' = "running")
             => Registered(_patterns', trie', store', PublicProxies, None, None)
      ]_vars

\* an add of a pattern string with a protocol prefix has returned, after
\* another task's add on the same normalized key with another rule, and its
\* definition is in the index, the trie (under the normalized key) and the
\* store
C5_Witness ==
    \E t \in Tasks, u \in Tasks :
        /\ t # u
        /\ op[t].name = "add" /\ op[t].status = "returned"
        /\ last = t
        /\ op[t].key = <<"http://", "a">>
        /\ op[u].name = "add" /\ op[u].status = "returned"
        /\ op[u].key = <<"a">>
        /\ op[u].rule # op[t].rule
        /\ Registered(_patterns, trie, store, op[t].key, op[t].rule, op[t].value)

\* C6: whenever the manager is running, no call is in progress and every
\* call issued has returned without an error, the index, the trie and the
\* store hold the same set of normalized pattern strings, and every pattern
\* of the index has the rule and value that the store holds under its
\* pattern string and that the trie holds under its normalized string.
C6_InSync ==
    ( /\ mgr = "running"
      /\ ~faulted
      /\ \A t \in Tasks : ~Awaiting(t) )
    => /\ NormSet(DOMAIN _patterns) = DOMAIN trie
       /\ NormSet(DOMAIN store) = DOMAIN trie
       /\ \A k \in DOMAIN _patterns :
            /\ k \in DOMAIN store
            /\ store[k].rule = _patterns[k].rule
            /\ store[k].value = _patterns[k].value
            /\ RemoveHttpPrefix(k) \in DOMAIN trie
            /\ trie[RemoveHttpPrefix(k)].rule = _patterns[k].rule
            /\ trie[RemoveHttpPrefix(k)].value = _patterns[k].value

\* C7: a task whose add (or update) of p has returned, and whose p is still
\* registered in the index, calls delete(p): the call does not raise, and it
\* removes p from the index and its normalized key from the trie; when the
\* delete returns with no other call in progress, p is absent from the store.
C7_AddThenDelete ==
    [][\A t \in Tasks :
        /\ \A k \in Keys :
             ( /\ Calls(t, "delete", k)
               /\ op[t].name \in {"add", "update"}
               /\ op[t].key = k
               /\ op[t].status = "returned"
               /\ k \in DOMAIN _patterns )
             => /\ op'[t].status = "awaiting"
                /\ k \notin DOMAIN _patterns'
                /\ RemoveHttpPrefix(k) \notin DOMAIN trie'
        /\ ( /\ op[t].name = "delete"
             /\ Awaiting(t)
             /\ op'[t].status = "returned"
             /\ \A u \in Tasks : op'[u].status # "awaiting" )
           => op[t].key \notin DOMAIN store'
      ]_vars

\* C8: a delete(patternStr) called when patternStr is not a key of the trie
\* or not a key of the index raises KeyError to its caller; it does not go on
\* to the store and does not return normally.
C8_DeleteMissingRaises ==
    [][\A t \in Tasks, k \in Keys :
        ( /\ Calls(t, "delete", k)
          /\ (k \notin DOMAIN trie \/ k \notin DOMAIN _patterns) )
        => /\ op'[t].status = "raised"
           /\ op'[t].exc \in {"KeyError:trie", "KeyError:index"}
           /\ pending' = pending
           /\ store' = store
      ]_vars

\* a delete has raised because its key was in the trie but not in the index
C8_Witness ==
    \E t \in Tasks :
        /\ op[t].name = "delete"
        /\ op[t].status = "raised"
        /\ op[t].exc = "KeyError:index"

\* C9: in every state after startup has completed, the index contains a
\* Pattern named public_proxies whose rule is none.
C9_SentinelAlways ==
    mgr = "running" =>
        /\ PublicProxies \in DOMAIN _patterns
        /\ _patterns[PublicProxies].rule = None

\* C10: once the manager's use has ended (the scope was left normally or by
\* a failure, or startup failed), the store connection is not left open.
C10_ConnectionClosed ==
    mgr \in {"exited", "enter_failed"} => redis # "open"

-----------------------------------------------------------------------------
(* CheckPatternTrie.closest_pattern *)

\* Bound: the number of words of a looked-up URL
MaxUrlLen == 3

UrlWords == {"http://", "https://", "httpbin", "a", "b"}

Urls == UNION {[1..n -> UrlWords] : n \in 0..MaxUrlLen}

\* the pattern strings the looked-up tries are built from
TrieKeys == {<<"a">>, <<"a", "b">>, <<"http://", "a">>, <<"httpbin", "a">>}

IsPrefix(k, u) == Len(k) <= Len(u) /\ SubSeq(u, 1, Len(k)) = k

NoStep == [is_set |-> FALSE, key |-> << >>, value |-> NoDoc]

\* CharTrie.longest_prefix(key): the step of the longest stored key that is a
\* prefix of key, or a step that is not set and whose key and value are None
LongestPrefix(tr, u) ==
    LET found == {k \in DOMAIN tr : IsPrefix(k, u)} IN
    IF found = {} THEN NoStep
    ELSE LET k == CHOOSE x \in found : \A y \in found : Len(y) <= Len(x)
         IN [is_set |-> TRUE, key |-> k, value |-> tr[k]]

\* json.dumps({'rule': None, 'value': None})
DefaultRule == [rule |-> None, value |-> None]

\* CheckPatternTrie.closest_pattern: the (pattern_str, check_rule_json) pair
ClosestPattern(tr, url) ==
    LET step == LongestPrefix(tr, RemoveHttpPrefix(url)) IN
    IF ~step.is_set THEN <<PublicProxies, DefaultRule>>
    ELSE <<step.key, step.value>>

\* a CheckPatternTrie built from a dict of pattern definitions, not yet used
InitLookup ==
    /\ CountersNew
    /\ redis = "unset"
    /\ store = EmptyDict
    /\ \E ks \in SUBSET TrieKeys :
          trie \in InitTrieResults([k \in ks |-> Dumps(Pattern(k, None, None))])
    /\ _patterns = EmptyDict
    /\ mgr = "new"
    /\ op = [t \in Tasks |-> NoOp]
    /\ pending = << >>
    /\ faulted = FALSE
    /\ last = NoTask
    /\ mcalls = 0
    /\ recorded = 0
    /\ NoCalls

\* a caller runs self.t.closest_pattern(url)
ClosestPatternCall(url) ==
    /\ ~lookup.called
    /\ lookup' = [called |-> TRUE, url |-> url, result |-> ClosestPattern(trie, url)]
    /\ UNCHANGED <<cvars, mvars, checked, rate>>

NextLookup == \E url \in Urls : ClosestPatternCall(url)

SpecLookup == InitLookup /\ [][NextLookup]_vars

\* C11: closest_pattern(url) returns the registered key that is the longest
\* prefix of the URL with only a leading http:// or https:// removed, with the
\* value stored under that key, and the sentinel pair (public_proxies, rule
\* none, value none) when no registered key is such a prefix.
C11_ClosestIsLongestPrefix ==
    lookup.called =>
        LET u == IF Len(lookup.url) > 0 /\ lookup.url[1] \in Protocols
                 THEN Tail(lookup.url) ELSE lookup.url
            found == {k \in DOMAIN trie : IsPrefix(k, u)}
        IN IF found = {}
           THEN lookup.result = <<PublicProxies, DefaultRule>>
           ELSE /\ lookup.result[1] \in found
                /\ \A k \in found : Len(k) <= Len(lookup.result[1])
                /\ lookup.result[2] = trie[lookup.result[1]]

-----------------------------------------------------------------------------
(* PatternManager.__aenter__ *)

\* startup has completed and no add, update or delete has been called yet
Started == mgr = "running" /\ mcalls = 0

-----------------------------------------------------------------------------
(* Checker *)
(* A string is a sequence of characters (or of words that stand for runs of *)
(* characters); an argument that may be None is a sequence of at most one   *)
(* element: << >> is None, <<x>> is the value x.                            *)

\* Bounds: the characters of a response body, the words of a blacklist
MaxTextLen == 2
MaxBlacklist == 2

TextChars == {"a", "b"}

Texts == UNION {[1..n -> TextChars] : n \in 0..MaxTextLen}

BlackWords == {<<"a">>, <<"b", "a">>}

Blacklists == UNION {[1..n -> BlackWords] : n \in 0..MaxBlacklist}

StatusCodes == {<< >>, <<200>>, <<399>>, <<400>>, <<404>>, <<500>>}

\* rule: None, 'whitelist', a blank string, an XPath expression
Rules == {<< >>, << <<"whitelist">> >>, << <<" ">> >>, << <<"//p">> >>}

\* value: None, '', a blank string, two texts
Values == {<< >>, << << >> >>, << <<" ">> >>, << <<"a">> >>, << <<"b">> >>}

\* etree.HTML(html).xpath(xpath): it raises, or it gives a list of results
XpathResults == {[raises |-> TRUE, nodes |-> << >>],
                 [raises |-> FALSE, nodes |-> << >>],
                 [raises |-> FALSE, nodes |-> << <<"a">> >>],
                 [raises |-> FALSE, nodes |-> << <<"b">>, <<"a">> >>]}

StatusBelow400(status_code) == status_code # << >> /\ status_code[1] < 400

\* Checker._status_code_checker
StatusCodeChecker(status_code) ==
    status_code # << >> /\ (status_code[1] = 404 \/ status_code[1] < 400)

StartsWith(text, word) == Len(word) <= Len(text) /\ SubSeq(text, 1, Len(word)) = word

\* word in text, on strings
Contains(text, word) ==
    \E i \in 0..(Len(text) - Len(word)) : SubSeq(text, i + 1, i + Len(word)) = word

\* what check returns: None (kind "passed") or a diagnostic of some kind that
\* quotes its subject; an exception that leaves check is a kind as well
Diag(kind, subject) == [kind |-> kind, subject |-> subject]

Passed == Diag("passed", << >>)

RECURSIVE LStrip(_)
LStrip(str) == IF str # << >> /\ str[1] = " " THEN LStrip(Tail(str)) ELSE str

RECURSIVE RStrip(_)
RStrip(str) ==
    IF str # << >> /\ str[Len(str)] = " " THEN RStrip(SubSeq(str, 1, Len(str) - 1)) ELSE str

\* str.strip()
Strip(str) == RStrip(LStrip(str))

\* the truth value of an argument that is None or a string
Truthy(arg) == arg # << >> /\ arg[1] # << >>

\* Checker._xpath_checker: lines 25-33; it returns None when the first
\* result equals value
XpathChecker(found, xpath, value) ==
    IF found.raises THEN Diag("traceback", << >>)
    ELSE IF found.nodes = << >> THEN Diag("xpath_not_found", xpath)
    ELSE IF found.nodes[1] # value THEN Diag("xpath_not_equal", << >>)
    ELSE Passed

\* Checker.check: lines 36-45
Check(global_blacklist, status_code, text, rule, value, found) ==
    IF ~StatusCodeChecker(status_code) THEN Diag("status_code", status_code)
    ELSE LET hits == {i \in 1..Len(global_blacklist) : Contains(text, global_blacklist[i])} IN
         IF hits # {}
         THEN Diag("blacklist", global_blacklist[CHOOSE i \in hits : \A j \in hits : i <= j])
         ELSE IF rule = << <<"whitelist">> >>
              THEN \* value not in text: a value of None raises TypeError
                   IF value = << >> THEN Diag("TypeError", << >>)
                   ELSE IF ~Contains(text, value[1]) THEN Diag("whitelist", value[1])
                   ELSE Passed
              ELSE IF /\ Truthy(rule) /\ Truthy(value)
                      /\ Len(Strip(rule[1])) # 0 /\ Len(Strip(value[1])) # 0
                   THEN XpathChecker(found, rule[1], value[1])
                   ELSE Passed

\* Checker.__init__: a checker with its global blacklist, not yet used
InitChecker ==
    /\ CountersNew
    /\ ManagerNew
    /\ store = EmptyDict
    /\ lookup = [called |-> FALSE]
    /\ rate = [called |-> FALSE]
    /\ \E bl \in Blacklists :
          checked = [called |-> FALSE, global_blacklist |-> bl, status_code |-> << >>,
                     text |-> << >>, rule |-> << >>, value |-> << >>, result |-> Passed]

\* a caller runs checker.check(status_code, text, rule, value)
CheckCall(status_code, text, rule, value, found) ==
    /\ ~checked.called
    /\ checked' = [called |-> TRUE, global_blacklist |-> checked.global_blacklist,
                   status_code |-> status_code, text |-> text, rule |-> rule,
                   value |-> value,
                   result |-> Check(checked.global_blacklist, status_code, text,
                                    rule, value, found)]
    /\ UNCHANGED <<cvars, mvars, lookup, rate>>

NextChecker ==
    \E sc \in StatusCodes, text \in Texts, rule \in Rules, value \in Values,
       found \in XpathResults : CheckCall(sc, text, rule, value, found)

SpecChecker == InitChecker /\ [][NextChecker]_vars

\* some word of the call's blacklist is a substring of its body
HasBlacklisted(c) ==
    \E i \in 1..Len(c.global_blacklist), from \in 1..(Len(c.text) + 1), to \in 0..Len(c.text) :
        SubSeq(c.text, from, to) = c.global_blacklist[i]

\* C13: check accepts a status code c iff c is present and (c = 404 or
\* c < 400); a rejected status gives the status-code diagnostic whatever the
\* body, the blacklist and the rule are; the later stages decide only when
\* every earlier stage has passed: blacklist after status, whitelist and the
\* structured assertion after status and blacklist.
C13_StatusFirst ==
    checked.called =>
        LET c == checked.status_code
            accepted == c # << >> /\ (c[1] = 404 \/ c[1] < 400)
            kind == checked.result.kind
        IN /\ (kind = "status_code") <=> ~accepted
           /\ ~accepted => checked.result.subject = c
           /\ kind = "blacklist" => accepted
           /\ kind \in {"whitelist", "xpath_not_found", "xpath_not_equal", "traceback"}
                => accepted /\ ~HasBlacklisted(checked)
           /\ kind = "whitelist" <=>
                ( /\ accepted /\ ~HasBlacklisted(checked)
                  /\ checked.rule = << <<"whitelist">> >>
                  /\ checked.value # << >>
                  /\ ~Contains(checked.text, checked.value[1]) )

\* a call with status 400, a blacklisted body and a whitelist rule has got
\* the status-code diagnostic
C13_Witness ==
    /\ checked.called
    /\ checked.status_code = <<400>>
    /\ HasBlacklisted(checked)
    /\ checked.rule = << <<"whitelist">> >>
    /\ checked.result.kind = "status_code"

\* C14, as claimed: for every body that contains a blacklisted substring,
\* check fails with the blacklist diagnostic, whatever the rule is.
C14_BlacklistAlways ==
    (checked.called /\ HasBlacklisted(checked)) => checked.result.kind = "blacklist"

\* C14, amended: for every body that contains a blacklisted substring, check
\* fails whatever the rule is; with an accepted status code the result is the
\* blacklist diagnostic, naming the first word of the blacklist that the body
\* contains, and with a rejected status code it is the status-code diagnostic.
C14_BlacklistAfterStatus ==
    (checked.called /\ HasBlacklisted(checked)) =>
        LET c == checked.status_code
            accepted == c # << >> /\ (c[1] = 404 \/ c[1] < 400)
            bl == checked.global_blacklist
        IN IF accepted
           THEN /\ checked.result.kind = "blacklist"
                /\ \E i \in 1..Len(bl) :
                      /\ checked.result.subject = bl[i]
                      /\ \A j \in 1..(i - 1) :
                            ~\E from \in 1..(Len(checked.text) + 1), to \in 0..Len(checked.text) :
                                 SubSeq(checked.text, from, to) = bl[j]
           ELSE checked.result.kind = "status_code"

\* a call with status 404, a whitelist rule whose value the body contains, and
\* a body that contains both words of the blacklist, the first of them not at
\* its start, has got the blacklist diagnostic for the first word
C14_Witness ==
    /\ checked.called
    /\ checked.status_code = <<404>>
    /\ checked.rule = << <<"whitelist">> >>
    /\ checked.value = << <<"b">> >>
    /\ checked.text = <<"b", "a">>
    /\ checked.global_blacklist = << <<"a">>, <<"b", "a">> >>
    /\ checked.result = Diag("blacklist", <<"a">>)

-----------------------------------------------------------------------------
(* PatternManager.update *)

\* the update call of task t returns in this step
UpdateReturns(t) ==
    /\ op[t].name = "update"
    /\ Awaiting(t)
    /\ op'[t].status = "returned"

\* C15, as claimed: when update(patternStr, rule, value) returns, the index
\* maps patternStr to a Pattern with the new rule and value and with empty
\* success and failure counters.
C15_UpdateReplaces ==
    [][\A t \in Tasks :
        UpdateReturns(t) =>
            /\ op[t].key \in DOMAIN _patterns'
            /\ _patterns'[op[t].key] = Pattern(op[t].key, op[t].rule, op[t].value)
      ]_vars

\* C15, amended: update(patternStr, rule, value) replaces the Pattern as soon
\* as it is called: the index then maps patternStr to a new Pattern with the
\* new rule and value and with empty counters, whatever the Pattern before
\* had recorded.  When the call returns, the index still maps patternStr to
\* exactly that Pattern provided no outcome was recorded while the call waited
\* for the store, no other add, update or delete is in progress and none was
\* called since.
C15_UpdateReplacesAtCall ==
    [][\A t \in Tasks :
        /\ \A k \in UpdateKeys :
             Calls(t, "update", k) =>
                /\ k \in DOMAIN _patterns'
                /\ _patterns'[k] = Pattern(k, op'[t].rule, op'[t].value)
        /\ ( /\ UpdateReturns(t)
             /\ last = t
             /\ recorded = 0
             /\ \A u \in Tasks : op'[u].status # "awaiting" )
           => /\ op[t].key \in DOMAIN _patterns'
              /\ _patterns'[op[t].key] = Pattern(op[t].key, op[t].rule, op[t].value)
      ]_vars

\* outcomes were recorded on the sentinel Pattern, then the one update call of
\* the run replaced it and has returned: its counters are empty
C15_Witness ==
    \E t \in Tasks :
        /\ op[t].name = "update" /\ op[t].status = "returned"
        /\ op[t].key = PublicProxies
        /\ op[t].rule = "whitelist"
        /\ mcalls = 1
        /\ calls > 0
        /\ recorded = 0
        /\ _patterns[PublicProxies] = Pattern(PublicProxies, op[t].rule, op[t].value)

-----------------------------------------------------------------------------
(* Pattern.success_rate *)
(* A rate is an exact fraction <<numerator, denominator>>.                  *)

\* Bound: the minute labels of the maps that success_rate is read from
MaxRateLabel == 3

RateLabels == 1..MaxRateLabel

RateCounts == {1, 2}

\* the maps over RateLabels that leave out at least one label, in every
\* insertion order, with every count of RateCounts
RateMaps ==
    UNION {{c \in [1..n -> RateLabels \X RateCounts] :
               \A i, j \in 1..n : i # j => c[i][1] # c[j][1]} :
           n \in 0..(MaxRateLabel - 1)}

FailPercent(success, fail) == <<fail * 100, fail + success>>

\* (self.success_counter[t]/(self.fail_counter[t] + self.success_counter[t])) * 100
Percent(success, fail) == <<success * 100, fail + success>>

\* y.append(100)
Hundred == <<100, 1>>

\* Pattern.success_rate: [x, y]
SuccessRate(sc, fc) ==
    <<[i \in 1..Len(sc) |-> sc[i][1]],
      [i \in 1..Len(sc) |->
          IF sc[i][1] \in Labels(fc)
          THEN Percent(sc[i][2], GetItem(fc, sc[i][1]))
          ELSE Hundred]>>

\* one Pattern whose maps hold some history, the other Patterns new
InitRate ==
    /\ \E sc \in RateMaps, fc \in RateMaps :
          /\ success_counter = [p \in PatternIds |-> IF p = 1 THEN sc ELSE << >>]
          /\ fail_counter = [p \in PatternIds |-> IF p = 1 THEN fc ELSE << >>]
    /\ counter_lock = [p \in PatternIds |-> NoTask]
    /\ cpc = [t \in Tasks |-> "idle"]
    /\ frame = [t \in Tasks |-> NoFrame]
    /\ ins_log = [p \in PatternIds |-> [v \in BOOLEAN |-> << >>]]
    /\ completed = [p \in PatternIds |-> [v \in BOOLEAN |-> [l \in CallLabels |-> 0]]]
    /\ evicted = {}
    /\ overlapped = {}
    /\ failed_since = {}
    /\ calls = 0
    /\ ManagerNew
    /\ store = EmptyDict
    /\ NoCalls

\* a caller reads pattern.success_rate
SuccessRateRead(p) ==
    /\ ~rate.called
    /\ rate' = [called |-> TRUE, self |-> p,
                result |-> SuccessRate(success_counter[p], fail_counter[p])]
    /\ UNCHANGED <<cvars, mvars, lookup, checked>>

NextRate == \E p \in PatternIds : SuccessRateRead(p)

SpecRate == InitRate /\ [][NextRate]_vars

\* C16: success_rate lists exactly the labels of the success map, in their
\* insertion order; the rate of a label that is also in the failure map is
\* 100 * success / (success + fail), the rate of any other label is 100;
\* a label that is only in the failure map is not listed.
C16_SuccessRateSeries ==
    rate.called =>
        LET sc == success_counter[rate.self]
            fc == fail_counter[rate.self]
            x == rate.result[1]
            y == rate.result[2]
        IN /\ Len(x) = Len(sc) /\ Len(y) = Len(sc)
           /\ \A i \in 1..Len(sc) :
                /\ x[i] = sc[i][1]
                /\ \A j \in 1..Len(fc) :
                      fc[j][1] = x[i] =>
                         y[i][1] * (sc[i][2] + fc[j][2]) = 100 * sc[i][2] * y[i][2]
                /\ (\A j \in 1..Len(fc) : fc[j][1] # x[i]) => y[i][1] = 100 * y[i][2]
           /\ \A j \in 1..Len(fc) :
                (\A i \in 1..Len(sc) : sc[i][1] # fc[j][1]) =>
                    \A i \in 1..Len(x) : x[i] # fc[j][1]

\* the rate has been read of a Pattern with label 2 then label 1 in the
\* success map (1 and 2 successes) and label 2 then label 3 in the failure
\* map (2 and 1 failures): 100/3 for label 2, 100 for label 1, nothing for 3
C16_Witness ==
    /\ rate.called
    /\ success_counter[rate.self] = << <<2, 1>>, <<1, 2>> >>
    /\ fail_counter[rate.self] = << <<2, 2>>, <<3, 1>> >>
    /\ rate.result = << <<2, 1>>, << <<100, 3>>, <<100, 1>> >> >>

\* C20: whenever success_rate gives 100 for a label of a Pattern, no failure
\* has been recorded for that label since it was last inserted into the
\* Pattern's success map.
C20_RateHidesNoFailure ==
    \A p \in PatternIds :
        LET r == SuccessRate(success_counter[p], fail_counter[p]) IN
        \A i \in 1..Len(r[1]) :
            r[2][i][1] = 100 * r[2][i][2] => <<p, r[1][i]>> \notin failed_since

-----------------------------------------------------------------------------
(* Startup, resolution and failed deletes *)

\* C17: when the store holds a public_proxies record at startup, the steps of
\* startup that register the sentinel (line 126 and the answer to its HSET)
\* leave that record's rule and value as they are in the store, and the
\* index and the trie hold that rule and value too.
C17_StartupKeepsSentinel ==
    [][ ( /\ mgr \in {"add_sentinel", "sentinel_hset"}
          /\ mgr' \in {"sentinel_hset", "running"}
          /\ PublicProxies \in DOMAIN store )
        => /\ PublicProxies \in DOMAIN store'
           /\ store'[PublicProxies] = store[PublicProxies]
           /\ PublicProxies \in DOMAIN _patterns'
           /\ _patterns'[PublicProxies].rule = store[PublicProxies].rule
           /\ _patterns'[PublicProxies].value = store[PublicProxies].value
           /\ PublicProxies \in DOMAIN trie'
           /\ trie'[PublicProxies].rule = store[PublicProxies].rule
           /\ trie'[PublicProxies].value = store[PublicProxies].value
      ]_vars

\* C18: in every state after startup in which no add, update or delete is in
\* progress, for every URL the pattern string that closest_pattern returns
\* is a key of the index, so get_pattern returns a Pattern for it.
C18_ResolutionLive ==
    ( /\ mgr = "running"
      /\ \A t \in Tasks : ~Awaiting(t) )
    => \A url \in Urls : ClosestPattern(trie, url)[1] \in DOMAIN _patterns

\* C19: a delete(patternStr) that raises leaves the trie, the index and the
\* store as they were before the call: one that raises at once changes
\* nothing in its step, and one that raises after waiting for the store (no
\* other call having been made since) leaves patternStr in the trie and in
\* the index, where it was before the call.
C19_FailedDeleteChangesNothing ==
    [][\A t \in Tasks :
        /\ \A k \in Keys :
             (Calls(t, "delete", k) /\ op'[t].status = "raised")
             => /\ trie' = trie
                /\ _patterns' = _patterns
                /\ store' = store
        /\ ( /\ op[t].name = "delete"
             /\ Awaiting(t)
             /\ op'[t].status = "raised"
             /\ last = t )
           => /\ op[t].key \in DOMAIN trie'
              /\ op[t].key \in DOMAIN _patterns'
      ]_vars

====
